---- MODULE Spec2Model ----
(***************************************************************************)
(* Property-management API: the lifecycle services (property, contract,    *)
(* payment, maintenance) and the read routes as a state machine over the   *)
(* rows of the relational store.  Every service method is one action: it   *)
(* runs inside one SQLAlchemy session (autocommit=False, autoflush=False)  *)
(* and ends with one db.commit(), or raises an HTTPException before any    *)
(* write.  A read route is one action that records its response.           *)
(***************************************************************************)
EXTENDS Integers, Sequences, FiniteSets, TLC

VARIABLES properties, contracts, payments, maintenance, today, last, listed,
          inflight, running, attempted

vars == <<properties, contracts, payments, maintenance, today, last, listed,
          inflight, running, attempted>>

(***************************************************************************)
(* Bounds of the model.                                                    *)
(***************************************************************************)
MaxProperties == 1
MaxContracts == 1
MaxPayments == 2
MaxTicks == 1
MaxRequests == 1
MaxSessions == 2

(***************************************************************************)
(* Enumerations of the ORM models.                                         *)
(***************************************************************************)
PropertyStatus == {"available", "rented", "sold", "maintenance"}

ContractStatus == {"active", "expired", "terminated", "pending"}

PaymentStatus == {"pending", "paid", "overdue", "cancelled"}

PaymentType == {"rent", "deposit", "charges", "maintenance", "other"}

MaintenanceStatus == {"pending", "in_progress", "completed", "cancelled"}

UserRole == {"admin", "agent", "owner", "tenant"}

\* Optional[T]: None is the empty set, a value v is {v}.
None == {}

Some(v) == {v}

\* A table without rows.
NoRows == [id \in {} |-> None]

(***************************************************************************)
(* Outcome of a service call: it returns, or raises an HTTPException with  *)
(* one of these status codes.                                              *)
(***************************************************************************)
Returned == "ok"

HTTP_400_BAD_REQUEST == "400"

HTTP_403_FORBIDDEN == "403"

HTTP_404_NOT_FOUND == "404"

HTTP_409_CONFLICT == "409"

HTTP_500_INTERNAL_SERVER_ERROR == "500"

\* The user rows; the lifecycle services never add or remove one.
users == {1, 2, 4}

PropertyIds == 1..MaxProperties

ContractIds == 1..MaxContracts

PaymentIds == 1..MaxPayments

RequestIds == 1..MaxRequests

(***************************************************************************)
(* datetime.date: <<year, month, day>>.                                    *)
(***************************************************************************)
IsLeap(y) == (y % 4 = 0) /\ ((y % 100 # 0) \/ (y % 400 = 0))

DaysInMonth(y, m) ==
    IF m = 2 THEN (IF IsLeap(y) THEN 29 ELSE 28)
    ELSE IF m \in {4, 6, 9, 11} THEN 30 ELSE 31

\* date(y, m, d) raises ValueError unless this holds.
ValidDate(y, m, d) ==
    /\ m \in 1..12
    /\ d >= 1
    /\ d <= DaysInMonth(y, m)

DateLT(a, b) ==
    \/ a[1] < b[1]
    \/ a[1] = b[1] /\ a[2] < b[2]
    \/ a[1] = b[1] /\ a[2] = b[2] /\ a[3] < b[3]

DateLE(a, b) == a = b \/ DateLT(a, b)

NextDay(d) ==
    IF d[3] < DaysInMonth(d[1], d[2]) THEN <<d[1], d[2], d[3] + 1>>
    ELSE IF d[2] < 12 THEN <<d[1], d[2] + 1, 1>>
    ELSE <<d[1] + 1, 1, 1>>

\* date + timedelta(days=n).
RECURSIVE PlusDays(_, _)
PlusDays(d, n) == IF n = 0 THEN d ELSE PlusDays(NextDay(d), n - 1)

RECURSIVE DaysFrom(_, _)
DaysFrom(d, n) == IF n = 0 THEN {d} ELSE {d} \cup DaysFrom(NextDay(d), n - 1)

\* The dates date.today() takes at the start of a run.
StartDates == {<<2024, 1, 31>>}

PaymentStartDates == {<<2024, 1, 15>>, <<2024, 1, 31>>}

\* The dates on which a rent schedule is generated: the first and the middle
\* of a month at the start of a year, and the middle of December.
RentStartDates == {<<2024, 1, 1>>, <<2024, 1, 15>>, <<2024, 12, 15>>}

\* The dates the clock passes through.
ClockDates ==
    UNION {DaysFrom(s, MaxTicks) :
            s \in StartDates \cup PaymentStartDates \cup RentStartDates}

\* End dates a caller gives a contract.
EndDateInputs == {Some(<<2024, 3, 15>>)}


(***************************************************************************)
(* Rows and the inputs of the bounded runs.                                *)
(***************************************************************************)
\* A caller names an owner that exists (2) or one that does not (3).
PropertyCreateInputs ==
    [status : PropertyStatus, owner_id : {2, 3}]

\* A partial update is the record of the fields the caller set
\* (dict(exclude_unset=True)); EmptyUpdate sets none.
EmptyUpdate == [f \in {} |-> None]

PropertyUpdateInputs == [status : PropertyStatus] \cup {EmptyUpdate}

\* A caller names a tenant that exists (1) or one that does not (3).
ContractCreateInputs ==
    [status : ContractStatus,
     property_id : PropertyIds,
     tenant_id : {1, 3},
     end_date : EndDateInputs,
     rent_amount : {Some(1000)},
     payment_day : {Some(31)}]

ContractUpdateInputs ==
    [status : ContractStatus] \cup {EmptyUpdate}

\* The record of the last service call: the method and how it ended.
Call(op, code) == [op |-> op, code |-> code]

\* The record of the last read request: the authenticated user, the id the
\* caller asked for (a path id, or the id filter of a listing) and the ids of
\* the rows in the response.
Listing(current_user, asked, rows) ==
    [current_user |-> current_user, asked |-> asked, rows |-> rows]

\* The caller of a service method that takes no current_user.
NoUser == [id |-> 0, role |-> "none"]

\* No read request has been served.
NoListing == Listing(NoUser, None, {})

\* The ids of the jobs schedule_all_tasks registers.
Jobs == {"payment_reminders", "contract_renewals", "maintenance_requests"}

\* No job instance is executing.
NoneRunning == [job \in Jobs |-> 0]

\* The record of the last batch of notifications: the recipients of the
\* batch, in order, and those send_notification was called for.
Batch(recipients, tried) == [recipients |-> recipients, tried |-> tried]

\* No batch has been sent.
NoBatch == Batch(<<>>, <<>>)

\* setattr over dict(exclude_unset=True): fields left out keep their value.
ApplyUpdate(row, data) ==
    [f \in DOMAIN row |-> IF f \in DOMAIN data THEN data[f] ELSE row[f]]

\* Python's "not x" on an Optional number: None and 0 are both falsy.
Falsy(opt) == opt = None \/ opt = Some(0)

\* The value of an Optional that is set.
Value(opt) == CHOOSE v \in opt : TRUE

\* property.contracts: the Contract rows whose foreign key is the property.
ContractsOf(p) == {c \in DOMAIN contracts : contracts[c].property_id = p}

(***************************************************************************)
(* PropertyService                                                         *)
(***************************************************************************)
create_property(data) ==
    IF data.owner_id \notin users
    THEN /\ last' = Call("create_property", HTTP_404_NOT_FOUND)
         /\ UNCHANGED <<inflight, running, attempted, properties, contracts, payments, today, maintenance, listed>>
    ELSE \E id \in PropertyIds \ DOMAIN properties :
         /\ properties' = properties @@
                (id :> [status |-> data.status, owner_id |-> data.owner_id])
         /\ last' = Call("create_property", Returned)
         /\ UNCHANGED <<inflight, running, attempted, contracts, payments, today, maintenance, listed>>

update_property(property_id, data) ==
    IF property_id \notin DOMAIN properties
    THEN /\ last' = Call("update_property", HTTP_404_NOT_FOUND)
         /\ UNCHANGED <<inflight, running, attempted, properties, contracts, payments, today, maintenance, listed>>
    ELSE /\ properties' = [properties EXCEPT
                ![property_id] = ApplyUpdate(properties[property_id], data)]
         /\ last' = Call("update_property", Returned)
         /\ UNCHANGED <<inflight, running, attempted, contracts, payments, today, maintenance, listed>>

\* "if property.contracts": any Contract row blocks the delete.
HasContracts(property_id) == ContractsOf(property_id) # {}

delete_property(property_id) ==
    IF property_id \notin DOMAIN properties
    THEN /\ last' = Call("delete_property", HTTP_404_NOT_FOUND)
         /\ UNCHANGED <<inflight, running, attempted, properties, contracts, payments, today, maintenance, listed>>
    ELSE IF HasContracts(property_id)
    THEN /\ last' = Call("delete_property", HTTP_400_BAD_REQUEST)
         /\ UNCHANGED <<inflight, running, attempted, properties, contracts, payments, today, maintenance, listed>>
    ELSE /\ properties' =
                [p \in DOMAIN properties \ {property_id} |-> properties[p]]
         /\ last' = Call("delete_property", Returned)
         /\ UNCHANGED <<inflight, running, attempted, contracts, payments, today, maintenance, listed>>

update_property_status(property_id, status) ==
    IF property_id \notin DOMAIN properties
    THEN /\ last' = Call("update_property_status", HTTP_404_NOT_FOUND)
         /\ UNCHANGED <<inflight, running, attempted, properties, contracts, payments, today, maintenance, listed>>
    ELSE /\ properties' = [properties EXCEPT ![property_id].status = status]
         /\ last' = Call("update_property_status", Returned)
         /\ UNCHANGED <<inflight, running, attempted, contracts, payments, today, maintenance, listed>>

(***************************************************************************)
(* ContractService                                                         *)
(***************************************************************************)
\* Contract(**contract_data.dict()): the row carries the caller's fields.
ContractRow(data) ==
    [status |-> data.status,
     property_id |-> data.property_id,
     tenant_id |-> data.tenant_id,
     end_date |-> data.end_date,
     rent_amount |-> data.rent_amount,
     payment_day |-> data.payment_day]

\* "if property.status != PropertyStatus.AVAILABLE": raise.
NotAvailable(property_id) == properties[property_id].status # "available"

\* The status create_contract gives the property.
StatusAfterCreate == "rented"

\* A create_contract that commits the contract row without the property write.
CommitCreateContractRowOnly(id, data) ==
    /\ contracts' = contracts @@ (id :> ContractRow(data))
    /\ properties' = properties

\* The two writes of create_contract, flushed by its one db.commit().
CommitCreateContract(id, data) ==
    /\ contracts' = contracts @@ (id :> ContractRow(data))
    /\ properties' = [properties EXCEPT ![data.property_id].status = StatusAfterCreate]

create_contract(data) ==
    IF data.property_id \notin DOMAIN properties
    THEN /\ last' = Call("create_contract", HTTP_404_NOT_FOUND)
         /\ UNCHANGED <<inflight, running, attempted, properties, contracts, payments, today, maintenance, listed>>
    ELSE IF NotAvailable(data.property_id)
    THEN /\ last' = Call("create_contract", HTTP_400_BAD_REQUEST)
         /\ UNCHANGED <<inflight, running, attempted, properties, contracts, payments, today, maintenance, listed>>
    ELSE IF data.tenant_id \notin users
    THEN /\ last' = Call("create_contract", HTTP_404_NOT_FOUND)
         /\ UNCHANGED <<inflight, running, attempted, properties, contracts, payments, today, maintenance, listed>>
    ELSE /\ Cardinality(DOMAIN contracts) < MaxContracts
         /\ LET id == Cardinality(DOMAIN contracts) + 1 IN
            /\ CommitCreateContract(id, data)
            /\ last' = Call("create_contract", Returned)
         /\ UNCHANGED <<inflight, running, attempted, payments, today, maintenance, listed>>

update_contract(contract_id, data) ==
    IF contract_id \notin DOMAIN contracts
    THEN /\ last' = Call("update_contract", HTTP_404_NOT_FOUND)
         /\ UNCHANGED <<inflight, running, attempted, properties, contracts, payments, today, maintenance, listed>>
    ELSE /\ contracts' = [contracts EXCEPT
                ![contract_id] = ApplyUpdate(contracts[contract_id], data)]
         /\ last' = Call("update_contract", Returned)
         /\ UNCHANGED <<inflight, running, attempted, properties, payments, today, maintenance, listed>>

\* "if contract.status == ContractStatus.TERMINATED": raise.
AlreadyTerminated(contract_id) == contracts[contract_id].status = "terminated"

\* The code terminate_contract raises with on a terminated contract.
AlreadyTerminatedCode == HTTP_400_BAD_REQUEST

\* contract.end_date = date.today()
TerminationDate == Some(today)

\* The status terminate_contract gives the contract's property.
StatusAfterTerminate == "available"

\* A terminate_contract that commits the contract row without the property write.
CommitTerminateContractRowOnly(contract_id) ==
    /\ contracts' = [contracts EXCEPT
            ![contract_id].status = "terminated",
            ![contract_id].end_date = TerminationDate]
    /\ properties' = properties

\* The writes of terminate_contract, flushed by its one db.commit().
CommitTerminateContract(contract_id) ==
    /\ contracts' = [contracts EXCEPT
            ![contract_id].status = "terminated",
            ![contract_id].end_date = TerminationDate]
    /\ properties' = [properties EXCEPT
            ![contracts[contract_id].property_id].status = StatusAfterTerminate]

terminate_contract(contract_id) ==
    IF contract_id \notin DOMAIN contracts
    THEN /\ last' = Call("terminate_contract", HTTP_404_NOT_FOUND)
         /\ UNCHANGED <<inflight, running, attempted, properties, contracts, payments, today, maintenance, listed>>
    ELSE IF AlreadyTerminated(contract_id)
    THEN /\ last' = Call("terminate_contract", AlreadyTerminatedCode)
         /\ UNCHANGED <<inflight, running, attempted, properties, contracts, payments, today, maintenance, listed>>
    ELSE /\ CommitTerminateContract(contract_id)
         /\ last' = Call("terminate_contract", Returned)
         /\ UNCHANGED <<inflight, running, attempted, payments, today, maintenance, listed>>

\* thirty_days_later = date(today.year, today.month + 1, today.day)
thirty_days_later == <<today[1], today[2] + 1, today[3]>>

\* The filter of check_contract_expiration; a NULL end_date matches neither
\* comparison.
Expiring(c) ==
    /\ contracts[c].status = "active"
    /\ contracts[c].end_date # None
    /\ DateLE(Value(contracts[c].end_date), thirty_days_later)
    /\ DateLE(today, Value(contracts[c].end_date))

check_contract_expiration ==
    /\ IF ~ValidDate(thirty_days_later[1], thirty_days_later[2],
                     thirty_days_later[3])
       THEN /\ last' = Call("check_contract_expiration",
                            HTTP_500_INTERNAL_SERVER_ERROR)
            /\ listed' = Listing(NoUser, None, {})
       ELSE /\ last' = Call("check_contract_expiration", Returned)
            /\ listed' = Listing(NoUser, None,
                                 {c \in DOMAIN contracts : Expiring(c)})
    /\ UNCHANGED <<inflight, running, attempted, properties, contracts, payments, maintenance, today>>

(***************************************************************************)
(* PaymentService                                                          *)
(***************************************************************************)
\* Payment(**payment_data.dict()): the row carries the caller's fields.
PaymentRow(data) ==
    [amount |-> data.amount,
     type |-> data.type,
     status |-> data.status,
     due_date |-> data.due_date,
     paid_date |-> data.paid_date,
     contract_id |-> data.contract_id]

\* "if contract.status != ContractStatus.ACTIVE": raise.
NotActive(contract_id) == contracts[contract_id].status # "active"

create_payment(data) ==
    IF data.contract_id \notin DOMAIN contracts
    THEN /\ last' = Call("create_payment", HTTP_404_NOT_FOUND)
         /\ UNCHANGED <<inflight, running, attempted, properties, contracts, payments, today, maintenance, listed>>
    ELSE IF NotActive(data.contract_id)
    THEN /\ last' = Call("create_payment", HTTP_400_BAD_REQUEST)
         /\ UNCHANGED <<inflight, running, attempted, properties, contracts, payments, today, maintenance, listed>>
    ELSE /\ Cardinality(DOMAIN payments) < MaxPayments
         /\ LET id == Cardinality(DOMAIN payments) + 1 IN
            payments' = payments @@ (id :> PaymentRow(data))
         /\ last' = Call("create_payment", Returned)
         /\ UNCHANGED <<inflight, running, attempted, properties, contracts, today, maintenance, listed>>

update_payment(payment_id, data) ==
    IF payment_id \notin DOMAIN payments
    THEN /\ last' = Call("update_payment", HTTP_404_NOT_FOUND)
         /\ UNCHANGED <<inflight, running, attempted, properties, contracts, payments, today, maintenance, listed>>
    ELSE /\ payments' = [payments EXCEPT
                ![payment_id] = ApplyUpdate(payments[payment_id], data)]
         /\ last' = Call("update_payment", Returned)
         /\ UNCHANGED <<inflight, running, attempted, properties, contracts, today, maintenance, listed>>

\* "if payment.status == PaymentStatus.PAID": raise.
AlreadyPaid(payment_id) == payments[payment_id].status = "paid"

\* The code mark_payment_as_paid raises with on a paid payment.
AlreadyPaidCode == HTTP_400_BAD_REQUEST

\* The two writes of mark_payment_as_paid.
MarkPaid(row) == [row EXCEPT !.status = "paid", !.paid_date = Some(today)]

mark_payment_as_paid(payment_id) ==
    IF payment_id \notin DOMAIN payments
    THEN /\ last' = Call("mark_payment_as_paid", HTTP_404_NOT_FOUND)
         /\ UNCHANGED <<inflight, running, attempted, properties, contracts, payments, today, maintenance, listed>>
    ELSE IF AlreadyPaid(payment_id)
    THEN /\ last' = Call("mark_payment_as_paid", AlreadyPaidCode)
         /\ UNCHANGED <<inflight, running, attempted, properties, contracts, payments, today, maintenance, listed>>
    ELSE /\ payments' = [payments EXCEPT ![payment_id] = MarkPaid(payments[payment_id])]
         /\ last' = Call("mark_payment_as_paid", Returned)
         /\ UNCHANGED <<inflight, running, attempted, properties, contracts, today, maintenance, listed>>

\* The while loop of generate_rent_payments: the due dates it appends, or a
\* ValueError from one of its two date(...) constructions.
RECURSIVE RentSchedule(_, _, _, _)
RentSchedule(current_date, end_date, payment_day, due) ==
    IF ~DateLE(current_date, end_date)
    THEN [raised |-> FALSE, due |-> due]
    ELSE IF ~ValidDate(current_date[1], current_date[2], payment_day)
    THEN [raised |-> TRUE, due |-> due]
    ELSE IF ~ValidDate(current_date[1], current_date[2] + 1, current_date[3])
    THEN [raised |-> TRUE, due |-> due]
    ELSE RentSchedule(<<current_date[1], current_date[2] + 1, current_date[3]>>,
                      end_date, payment_day,
                      Append(due, <<current_date[1], current_date[2], payment_day>>))

\* The Payment rows of a schedule, numbered after the rows of the table.
RentRows(contract_id, amount, due) ==
    [id \in (Cardinality(DOMAIN payments) + 1)..(Cardinality(DOMAIN payments) + Len(due)) |->
        [amount |-> amount,
         type |-> "rent",
         status |-> "pending",
         due_date |-> due[id - Cardinality(DOMAIN payments)],
         paid_date |-> None,
         contract_id |-> contract_id]]

\* A generate_rent_payments that adds and commits each row inside the loop:
\* the rows appended before a ValueError stay in the table.
AddEachRow(contract_id, schedule) ==
    payments' = payments @@
        RentRows(contract_id, Value(contracts[contract_id].rent_amount),
                 schedule.due)

\* db.add_all(payments); db.commit(): reached only when the loop has ended
\* without raising, so a ValueError leaves the table as it was.
AddAll(contract_id, schedule) ==
    payments' = IF schedule.raised THEN payments
                ELSE payments @@
                        RentRows(contract_id,
                                 Value(contracts[contract_id].rent_amount),
                                 schedule.due)

generate_rent_payments(contract_id) ==
    IF contract_id \notin DOMAIN contracts
    THEN /\ last' = Call("generate_rent_payments", HTTP_404_NOT_FOUND)
         /\ UNCHANGED <<inflight, running, attempted, properties, contracts, payments, today, maintenance, listed>>
    ELSE IF Falsy(contracts[contract_id].rent_amount)
            \/ Falsy(contracts[contract_id].payment_day)
    THEN /\ last' = Call("generate_rent_payments", HTTP_400_BAD_REQUEST)
         /\ UNCHANGED <<inflight, running, attempted, properties, contracts, payments, today, maintenance, listed>>
    ELSE IF contracts[contract_id].end_date = None
            /\ ~ValidDate(today[1] + 1, today[2], today[3])
    THEN /\ last' = Call("generate_rent_payments", HTTP_500_INTERNAL_SERVER_ERROR)
         /\ UNCHANGED <<inflight, running, attempted, properties, contracts, payments, today, maintenance, listed>>
    ELSE LET end_date == IF contracts[contract_id].end_date = None
                         THEN <<today[1] + 1, today[2], today[3]>>
                         ELSE Value(contracts[contract_id].end_date)
             schedule == RentSchedule(today, end_date,
                                      Value(contracts[contract_id].payment_day), <<>>)
         IN /\ ~schedule.raised =>
                    Cardinality(DOMAIN payments) + Len(schedule.due) <= MaxPayments
            /\ AddAll(contract_id, schedule)
            /\ last' = Call("generate_rent_payments",
                            IF schedule.raised
                            THEN HTTP_500_INTERNAL_SERVER_ERROR ELSE Returned)
            /\ UNCHANGED <<inflight, running, attempted, properties, contracts, today, maintenance, listed>>

(***************************************************************************)
(* MaintenanceService                                                      *)
(***************************************************************************)
\* MaintenanceRequest(**request_data.dict()): the row carries the caller's
\* fields.
MaintenanceRow(data) ==
    [status |-> data.status,
     priority |-> data.priority,
     completion_date |-> data.completion_date,
     cost |-> data.cost,
     property_id |-> data.property_id,
     requested_by_id |-> data.requested_by_id,
     assigned_to_id |-> data.assigned_to_id]

create_maintenance_request(request_data) ==
    IF request_data.property_id \notin DOMAIN properties
    THEN /\ last' = Call("create_maintenance_request", HTTP_404_NOT_FOUND)
         /\ UNCHANGED <<inflight, running, attempted, properties, contracts, payments, today, maintenance, listed>>
    ELSE IF request_data.requested_by_id \notin users
    THEN /\ last' = Call("create_maintenance_request", HTTP_404_NOT_FOUND)
         /\ UNCHANGED <<inflight, running, attempted, properties, contracts, payments, today, maintenance, listed>>
    ELSE IF ~Falsy(request_data.assigned_to_id)
            /\ Value(request_data.assigned_to_id) \notin users
    THEN /\ last' = Call("create_maintenance_request", HTTP_404_NOT_FOUND)
         /\ UNCHANGED <<inflight, running, attempted, properties, contracts, payments, today, maintenance, listed>>
    ELSE /\ Cardinality(DOMAIN maintenance) < MaxRequests
         /\ LET id == Cardinality(DOMAIN maintenance) + 1 IN
            maintenance' = maintenance @@ (id :> MaintenanceRow(request_data))
         /\ last' = Call("create_maintenance_request", Returned)
         /\ UNCHANGED <<inflight, running, attempted, properties, contracts, payments, today, listed>>

update_maintenance_request(request_id, request_data) ==
    IF request_id \notin DOMAIN maintenance
    THEN /\ last' = Call("update_maintenance_request", HTTP_404_NOT_FOUND)
         /\ UNCHANGED <<inflight, running, attempted, properties, contracts, payments, today, maintenance, listed>>
    ELSE /\ maintenance' = [maintenance EXCEPT
                ![request_id] = ApplyUpdate(maintenance[request_id], request_data)]
         /\ last' = Call("update_maintenance_request", Returned)
         /\ UNCHANGED <<inflight, running, attempted, properties, contracts, payments, today, listed>>

\* "if request.status == MaintenanceStatus.COMPLETED": raise.
AlreadyCompleted(request_id) == maintenance[request_id].status = "completed"

\* The code complete_maintenance_request raises with on a completed request.
AlreadyCompletedCode == HTTP_400_BAD_REQUEST

\* The three writes of complete_maintenance_request.
Complete(row, cost) ==
    [row EXCEPT !.status = "completed",
                !.completion_date = Some(today),
                !.cost = Some(cost)]

complete_maintenance_request(request_id, cost) ==
    IF request_id \notin DOMAIN maintenance
    THEN /\ last' = Call("complete_maintenance_request", HTTP_404_NOT_FOUND)
         /\ UNCHANGED <<inflight, running, attempted, properties, contracts, payments, today, maintenance, listed>>
    ELSE IF AlreadyCompleted(request_id)
    THEN /\ last' = Call("complete_maintenance_request", AlreadyCompletedCode)
         /\ UNCHANGED <<inflight, running, attempted, properties, contracts, payments, today, maintenance, listed>>
    ELSE /\ maintenance' = [maintenance EXCEPT
                ![request_id] = Complete(maintenance[request_id], cost)]
         /\ last' = Call("complete_maintenance_request", Returned)
         /\ UNCHANGED <<inflight, running, attempted, properties, contracts, payments, today, listed>>

\* A high-priority filter that keeps completed requests.
HighPriorityAnyStatus(row) == row.priority >= 4

\* filter(priority >= 4, status != MaintenanceStatus.COMPLETED)
HighPriority(row) == row.priority >= 4 /\ row.status # "completed"

get_high_priority_requests ==
    /\ listed' = Listing(NoUser, None,
            {r \in DOMAIN maintenance : HighPriority(maintenance[r])})
    /\ last' = Call("get_high_priority_requests", Returned)
    /\ UNCHANGED <<inflight, running, attempted, properties, contracts, payments, maintenance, today>>

(***************************************************************************)
(* The read endpoints.  current_user is the User row the request is        *)
(* authenticated as: [id, role].  Listings are modelled with the default   *)
(* skip and limit, which return every row the filters keep.                *)
(***************************************************************************)
\* current_user.tenant_contracts: the Contract rows whose tenant is the user.
tenant_contracts(current_user) ==
    {c \in DOMAIN contracts : contracts[c].tenant_id = current_user.id}

\* "if x:" on an Optional enum filter: only None is falsy.
Keeps(filter, value) == filter = None \/ filter = Some(value)

\* "if x:" on an Optional id filter: None and 0 are falsy.
KeepsId(filter, value) == Falsy(filter) \/ filter = Some(value)

get_contracts(property_id, tenant_id, status) ==
    {c \in DOMAIN contracts :
        /\ KeepsId(property_id, contracts[c].property_id)
        /\ KeepsId(tenant_id, contracts[c].tenant_id)
        /\ Keeps(status, contracts[c].status)}

get_payments(contract_id, status, type) ==
    {p \in DOMAIN payments :
        /\ KeepsId(contract_id, payments[p].contract_id)
        /\ Keeps(status, payments[p].status)
        /\ Keeps(type, payments[p].type)}

get_maintenance_requests(property_id, status, priority) ==
    {r \in DOMAIN maintenance :
        /\ KeepsId(property_id, maintenance[r].property_id)
        /\ Keeps(status, maintenance[r].status)
        /\ KeepsId(priority, maintenance[r].priority)}

\* A read_contracts that narrows only when the caller gave no tenant_id.
NarrowTenantIfAbsent(current_user, tenant_id) ==
    IF current_user.role = "tenant" /\ tenant_id = None
    THEN Some(current_user.id) ELSE tenant_id

\* "if current_user.role == UserRole.TENANT: tenant_id = current_user.id"
NarrowTenant(current_user, tenant_id) ==
    IF current_user.role = "tenant" THEN Some(current_user.id) ELSE tenant_id

read_contracts(current_user, property_id, tenant_id, status) ==
    /\ listed' = Listing(current_user, tenant_id,
            get_contracts(property_id, NarrowTenant(current_user, tenant_id), status))
    /\ last' = Call("read_contracts", Returned)
    /\ UNCHANGED <<inflight, running, attempted, properties, contracts, payments, maintenance, today>>

\* "x if x in ids else None": a filter outside ids is dropped.
FilterIfIn(filter, ids) ==
    IF filter # None /\ Value(filter) \in ids THEN filter ELSE None

read_payments(current_user, contract_id, status, type) ==
    /\ listed' = Listing(current_user, contract_id,
            IF current_user.role = "tenant"
            THEN IF tenant_contracts(current_user) = {}
                 THEN {}
                 ELSE get_payments(
                        FilterIfIn(contract_id, tenant_contracts(current_user)),
                        status, type)
            ELSE get_payments(contract_id, status, type))
    /\ last' = Call("read_payments", Returned)
    /\ UNCHANGED <<inflight, running, attempted, properties, contracts, payments, maintenance, today>>

\* [c.property_id for c in current_user.tenant_contracts]
tenant_properties(current_user) ==
    {contracts[c].property_id : c \in tenant_contracts(current_user)}

read_maintenance_requests(current_user, property_id, status, priority) ==
    /\ listed' = Listing(current_user, property_id,
            IF current_user.role = "tenant"
            THEN IF tenant_properties(current_user) = {}
                 THEN {}
                 ELSE get_maintenance_requests(
                        FilterIfIn(property_id, tenant_properties(current_user)),
                        status, priority)
            ELSE get_maintenance_requests(property_id, status, priority))
    /\ last' = Call("read_maintenance_requests", Returned)
    /\ UNCHANGED <<inflight, running, attempted, properties, contracts, payments, maintenance, today>>

\* A single-resource read answers with one row, or raises with a code.
Answer(op, current_user, id, code) ==
    /\ listed' = Listing(current_user, Some(id),
                         IF code = Returned THEN {id} ELSE {})
    /\ last' = Call(op, code)
    /\ UNCHANGED <<inflight, running, attempted, properties, contracts, payments, maintenance, today>>

\* The tenant branch of get_property: an active contract of the user on it.
has_active_contract(property_id, user_id) ==
    \E c \in DOMAIN contracts :
        /\ contracts[c].property_id = property_id
        /\ contracts[c].tenant_id = user_id
        /\ contracts[c].status = "active"

get_property(property_id, user_role, user_id) ==
    IF property_id \notin DOMAIN properties THEN HTTP_404_NOT_FOUND
    ELSE IF user_role \in {"admin", "agent"} THEN Returned
    ELSE IF user_role = "owner"
    THEN (IF properties[property_id].owner_id # user_id
          THEN HTTP_403_FORBIDDEN ELSE Returned)
    ELSE IF user_role = "tenant"
    THEN (IF ~has_active_contract(property_id, user_id)
          THEN HTTP_403_FORBIDDEN ELSE Returned)
    ELSE Returned

read_property(current_user, property_id) ==
    Answer("read_property", current_user, property_id,
           get_property(property_id, current_user.role, current_user.id))

\* A read_contract that checks the caller's role before fetching the row.
read_contract_RoleFirst(current_user, contract_id) ==
    Answer("read_contract", current_user, contract_id,
           IF current_user.role = "tenant"
              /\ (contract_id \notin DOMAIN contracts
                  \/ contracts[contract_id].tenant_id # current_user.id)
           THEN HTTP_403_FORBIDDEN
           ELSE IF contract_id \notin DOMAIN contracts THEN HTTP_404_NOT_FOUND
           ELSE Returned)

read_contract(current_user, contract_id) ==
    Answer("read_contract", current_user, contract_id,
           IF contract_id \notin DOMAIN contracts THEN HTTP_404_NOT_FOUND
           ELSE IF current_user.role = "tenant"
                   /\ contracts[contract_id].tenant_id # current_user.id
           THEN HTTP_403_FORBIDDEN
           ELSE Returned)

read_payment(current_user, payment_id) ==
    Answer("read_payment", current_user, payment_id,
           IF payment_id \notin DOMAIN payments THEN HTTP_404_NOT_FOUND
           ELSE IF current_user.role = "tenant"
                   /\ contracts[payments[payment_id].contract_id].tenant_id
                        # current_user.id
           THEN HTTP_403_FORBIDDEN
           ELSE Returned)

read_maintenance_request(current_user, request_id) ==
    Answer("read_maintenance_request", current_user, request_id,
           IF request_id \notin DOMAIN maintenance THEN HTTP_404_NOT_FOUND
           ELSE IF current_user.role = "tenant"
                   /\ maintenance[request_id].property_id
                        \notin tenant_properties(current_user)
           THEN HTTP_403_FORBIDDEN
           ELSE Returned)

(***************************************************************************)
(* The write routes whose outcome differs from the service they call.      *)
(***************************************************************************)
\* DELETE /properties/{property_id}.  The route calls
\* property_service.delete_property(db, property_id) while the service is
\* delete_property(property_id, db): the service receives the id as its
\* session, get_property evaluates db.query on an int and raises
\* AttributeError before any query, and the middleware answers 500.
delete_property_route(current_user, property_id) ==
    /\ last' = Call("delete_property_route",
                    IF current_user.role # "admin"
                    THEN HTTP_403_FORBIDDEN
                    ELSE HTTP_500_INTERNAL_SERVER_ERROR)
    /\ UNCHANGED <<inflight, running, attempted, properties, contracts, payments, maintenance, today, listed>>

\* "if not request_data.requested_by_id: requested_by_id = current_user.id"
RequesterOrCaller(current_user, request_data) ==
    IF request_data.requested_by_id = 0
    THEN [request_data EXCEPT !.requested_by_id = current_user.id]
    ELSE request_data

\* POST /maintenance: any authenticated user reaches the service.
create_maintenance_request_route(current_user, request_data) ==
    create_maintenance_request(RequesterOrCaller(current_user, request_data))

(***************************************************************************)
(* create_contract in concurrent sessions: get_db gives every request its  *)
(* own Session, and a request's queries precede its db.commit().           *)
(***************************************************************************)
\* The sessions that serve requests at the same time.
Sessions == 1..MaxSessions

\* The queries of create_contract: the property and the tenant are read and
\* checked; a request that passes holds its data until its commit.
create_contract_read(session, data) ==
    /\ session \notin DOMAIN inflight
    /\ IF data.property_id \notin DOMAIN properties
       THEN /\ last' = Call("create_contract", HTTP_404_NOT_FOUND)
            /\ UNCHANGED inflight
       ELSE IF NotAvailable(data.property_id)
       THEN /\ last' = Call("create_contract", HTTP_400_BAD_REQUEST)
            /\ UNCHANGED inflight
       ELSE IF data.tenant_id \notin users
       THEN /\ last' = Call("create_contract", HTTP_404_NOT_FOUND)
            /\ UNCHANGED inflight
       ELSE /\ inflight' = inflight @@ (session :> data)
            /\ UNCHANGED last
    /\ UNCHANGED <<running, attempted, properties, contracts, payments, today, maintenance, listed>>

\* db.add, "property.status = PropertyStatus.RENTED" and db.commit() of a
\* request that passed its checks: nothing is read again, no row is locked.
create_contract_commit(session) ==
    /\ session \in DOMAIN inflight
    /\ LET id == Cardinality(DOMAIN contracts) + 1 IN
       /\ CommitCreateContract(id, inflight[session])
       /\ last' = Call("create_contract", Returned)
    /\ inflight' = [s \in DOMAIN inflight \ {session} |-> inflight[s]]
    /\ UNCHANGED <<running, attempted, payments, today, maintenance, listed>>

(***************************************************************************)
(* NotificationManager and TaskScheduler                                   *)
(***************************************************************************)
\* One call of send_notification: the row it is about and the party told.
Recipient(row, to) == [row |-> row, to |-> to]

\* The rows of a query, in the order of their ids.
RECURSIVE InOrder(_)
InOrder(ids) ==
    IF ids = {} THEN <<>>
    ELSE LET id == CHOOSE i \in ids : \A j \in ids : i <= j
         IN <<id>> \o InOrder(ids \ {id})

\* The calls a loop makes, one sequence of calls per row.
RECURSIVE Flatten(_)
Flatten(calls) ==
    IF calls = <<>> THEN <<>> ELSE Head(calls) \o Flatten(Tail(calls))

\* A loop whose body wraps send_notification in try/except and continues:
\* every recipient is tried, whichever of them fail.
TriedEach(recipients, failing) == recipients

\* A loop inside one try/except: the first send_notification that raises
\* ends the loop, the recipients after it are not tried.
TriedUntilFailure(recipients, failing) ==
    LET raised == {i \in 1..Len(recipients) : recipients[i] \in failing} IN
    IF raised = {} THEN recipients
    ELSE SubSeq(recipients, 1, CHOOSE i \in raised : \A j \in raised : i <= j)

\* send_bulk_notification: "except Exception ... continue" per recipient.
send_bulk_notification(recipients, failing) ==
    /\ attempted' = Batch(recipients, TriedEach(recipients, failing))
    /\ last' = Call("send_bulk_notification", Returned)
    /\ UNCHANGED <<inflight, running, properties, contracts, payments, maintenance, today, listed>>

\* job_defaults: at most this many instances of one job run at a time.
max_instances == 3

\* A trigger of the job fires: the executor starts an instance unless
\* max_instances of the job are running, and then the run is skipped
\* (coalesce is False, a skipped run is not made up later).
Trigger(job) ==
    /\ IF running[job] < max_instances
       THEN /\ running' = [running EXCEPT ![job] = @ + 1]
            /\ last' = Call(job, "started")
       ELSE /\ last' = Call(job, "skipped")
            /\ UNCHANGED running
    /\ UNCHANGED <<inflight, attempted, properties, contracts, payments, maintenance, today, listed>>

\* The pending payments due within 7 days, and for each of them whose
\* contract exists a reminder to the tenant.
PaymentReminders ==
    LET due == InOrder({p \in DOMAIN payments :
                    /\ DateLE(payments[p].due_date, PlusDays(today, 7))
                    /\ payments[p].status = "pending"})
    IN Flatten([i \in 1..Len(due) |->
            IF payments[due[i]].contract_id \in DOMAIN contracts
            THEN <<Recipient(due[i], "tenant")>> ELSE <<>>])

\* An instance of the job payment_reminders runs to its end.
schedule_payment_reminders(failing) ==
    /\ running["payment_reminders"] > 0
    /\ attempted' = Batch(PaymentReminders,
                          TriedUntilFailure(PaymentReminders, failing))
    /\ running' = [running EXCEPT !["payment_reminders"] = @ - 1]
    /\ last' = Call("schedule_payment_reminders", Returned)
    /\ UNCHANGED <<inflight, properties, contracts, payments, maintenance, today, listed>>

\* The active contracts that end within 30 days, and for each of them a
\* notice to the tenant and then one to the owner.
ContractRenewals ==
    LET ending == InOrder({c \in DOMAIN contracts :
                    /\ contracts[c].end_date # None
                    /\ DateLE(Value(contracts[c].end_date), PlusDays(today, 30))
                    /\ contracts[c].status = "active"})
    IN Flatten([i \in 1..Len(ending) |->
            <<Recipient(ending[i], "tenant"), Recipient(ending[i], "owner")>>])

\* An instance of the job contract_renewals runs to its end.
check_contract_renewals(failing) ==
    /\ running["contract_renewals"] > 0
    /\ attempted' = Batch(ContractRenewals,
                          TriedUntilFailure(ContractRenewals, failing))
    /\ running' = [running EXCEPT !["contract_renewals"] = @ - 1]
    /\ last' = Call("check_contract_renewals", Returned)
    /\ UNCHANGED <<inflight, properties, contracts, payments, maintenance, today, listed>>

\* An instance of the job maintenance_requests runs to its end: the filter
\* names MaintenanceRequest.created_at, a column the model does not have, so
\* the AttributeError is logged before any row is read.
check_maintenance_requests ==
    /\ running["maintenance_requests"] > 0
    /\ attempted' = Batch(<<>>, <<>>)
    /\ running' = [running EXCEPT !["maintenance_requests"] = @ - 1]
    /\ last' = Call("check_maintenance_requests", Returned)
    /\ UNCHANGED <<inflight, properties, contracts, payments, maintenance, today, listed>>

(***************************************************************************)
(* The calendar: date.today() moves on between calls.                      *)
(***************************************************************************)
Tick ==
    /\ NextDay(today) \in ClockDates
    /\ today' = NextDay(today)
    /\ last' = Call("tick", Returned)
    /\ UNCHANGED <<inflight, running, attempted, properties, contracts, payments, maintenance, listed>>

Init ==
    /\ properties = NoRows
    /\ contracts = NoRows
    /\ payments = NoRows
    /\ maintenance = NoRows
    /\ listed = NoListing
    /\ inflight = NoRows
    /\ running = NoneRunning
    /\ attempted = NoBatch
    /\ today \in StartDates
    /\ last = Call("init", Returned)

Next ==
    \/ \E data \in PropertyCreateInputs : create_property(data)
    \/ \E id \in PropertyIds,
          data \in PropertyUpdateInputs : update_property(id, data)
    \/ \E id \in PropertyIds : delete_property(id)
    \/ \E id \in PropertyIds,
          status \in PropertyStatus : update_property_status(id, status)
    \/ \E data \in ContractCreateInputs : create_contract(data)
    \/ \E id \in ContractIds,
          data \in ContractUpdateInputs : update_contract(id, data)
    \/ \E id \in ContractIds : terminate_contract(id)
    \/ Tick

Spec == Init /\ [][Next]_vars

(***************************************************************************)
(* The payment services, run over a store that holds a rented property     *)
(* with an active contract and a property with a pending contract.         *)
(***************************************************************************)
\* Contract ids a caller may name: the two rows, and one that no row has.
PaymentContractInputs == {1, 2, 3}

PaymentCreateInputs ==
    [amount : {500},
     type : {"deposit"},
     status : PaymentStatus,
     due_date : {<<2024, 2, 1>>},
     paid_date : {None, Some(<<2024, 1, 10>>)},
     contract_id : PaymentContractInputs]

PaymentUpdateInputs ==
    [status : PaymentStatus]
        \cup [paid_date : {None}]
        \cup [status : {"paid"}, paid_date : {Some(<<2024, 1, 10>>)}]
        \cup {EmptyUpdate}

InitPayment ==
    /\ properties = (1 :> [status |-> "rented", owner_id |-> 2])
                        @@ (2 :> [status |-> "rented", owner_id |-> 2])
    /\ contracts =
            (1 :> [status |-> "active", property_id |-> 1, tenant_id |-> 1,
                   end_date |-> Some(<<2024, 2, 20>>),
                   rent_amount |-> Some(1000), payment_day |-> Some(5)])
            @@ (2 :> [status |-> "pending", property_id |-> 2, tenant_id |-> 1,
                      end_date |-> None,
                      rent_amount |-> None, payment_day |-> None])
    /\ payments = NoRows
    /\ maintenance = NoRows
    /\ listed = NoListing
    /\ inflight = NoRows
    /\ running = NoneRunning
    /\ attempted = NoBatch
    /\ today \in PaymentStartDates
    /\ last = Call("init", Returned)

NextPayment ==
    \/ \E data \in PaymentCreateInputs : create_payment(data)
    \/ \E id \in PaymentIds, data \in PaymentUpdateInputs : update_payment(id, data)
    \/ \E id \in PaymentIds : mark_payment_as_paid(id)
    \/ \E id \in PaymentContractInputs : generate_rent_payments(id)
    \/ Tick

SpecPayment == InitPayment /\ [][NextPayment]_vars

(***************************************************************************)
(* The maintenance services, run over a store that holds one property.     *)
(***************************************************************************)
\* A caller names the property (1), a requester that exists (1) and no
\* assignee; or, in one request each, a property that does not exist (3), a
\* requester that does not exist (3), an assignee that does not exist (3).
MaintenanceCreateInputs ==
    [status : MaintenanceStatus,
     priority : {1, 4, 5},
     completion_date : {None},
     cost : {None},
     property_id : {1},
     requested_by_id : {1},
     assigned_to_id : {None}]
    \cup
    {[status |-> "pending", priority |-> 1, completion_date |-> None,
      cost |-> None, property_id |-> ids[1], requested_by_id |-> ids[2],
      assigned_to_id |-> ids[3]] :
        ids \in {<<3, 1, None>>, <<1, 3, None>>, <<1, 1, Some(3)>>}}

MaintenanceUpdateInputs ==
    [status : MaintenanceStatus]
        \cup [cost : {Some(150)}]
        \cup [completion_date : {None}]
        \cup {EmptyUpdate}

\* The cost a caller reports when completing a request.
CostInputs == {0, 150}

InitMaintenance ==
    /\ properties = (1 :> [status |-> "available", owner_id |-> 2])
    /\ contracts = NoRows
    /\ payments = NoRows
    /\ maintenance = NoRows
    /\ listed = NoListing
    /\ inflight = NoRows
    /\ running = NoneRunning
    /\ attempted = NoBatch
    /\ today \in StartDates
    /\ last = Call("init", Returned)

NextMaintenance ==
    \/ \E data \in MaintenanceCreateInputs : create_maintenance_request(data)
    \/ \E id \in RequestIds,
          data \in MaintenanceUpdateInputs : update_maintenance_request(id, data)
    \/ \E id \in RequestIds,
          cost \in CostInputs : complete_maintenance_request(id, cost)
    \/ get_high_priority_requests
    \/ Tick

SpecMaintenance == InitMaintenance /\ [][NextMaintenance]_vars

(***************************************************************************)
(* The read endpoints, run over a store in which tenant 1 rents property 1 *)
(* and tenant 2 rents property 2, each contract with one payment and each  *)
(* property with one maintenance request; user 4 has no contract.          *)
(***************************************************************************)
\* The user a request is authenticated as: any user row, holding any role.
Callers == [id : users, role : UserRole]

\* Ids a caller may name: the two rows of each table, and one no row has.
AccessIds == {1, 2, 3}

IdFilters == {None} \cup {Some(id) : id \in AccessIds}

PropertyFilters == {None, Some(1)}

ContractStatusFilters == {None, Some("active")}

PaymentStatusFilters == {None, Some("pending")}

PaymentTypeFilters == {None, Some("rent")}

MaintenanceStatusFilters == {None, Some("pending")}

PriorityFilters == {None, Some(4)}

InitAccess ==
    /\ properties = (1 :> [status |-> "rented", owner_id |-> 2])
                        @@ (2 :> [status |-> "rented", owner_id |-> 2])
    /\ contracts =
            (1 :> [status |-> "active", property_id |-> 1, tenant_id |-> 1,
                   end_date |-> Some(<<2024, 2, 20>>),
                   rent_amount |-> Some(1000), payment_day |-> Some(5)])
            @@ (2 :> [status |-> "active", property_id |-> 2, tenant_id |-> 2,
                      end_date |-> Some(<<2024, 2, 20>>),
                      rent_amount |-> Some(1000), payment_day |-> Some(5)])
    /\ payments =
            (1 :> [amount |-> 1000, type |-> "rent", status |-> "pending",
                   due_date |-> <<2024, 2, 5>>, paid_date |-> None,
                   contract_id |-> 1])
            @@ (2 :> [amount |-> 1000, type |-> "rent", status |-> "pending",
                      due_date |-> <<2024, 2, 5>>, paid_date |-> None,
                      contract_id |-> 2])
    /\ maintenance =
            (1 :> [status |-> "pending", priority |-> 4,
                   completion_date |-> None, cost |-> None, property_id |-> 1,
                   requested_by_id |-> 1, assigned_to_id |-> None])
            @@ (2 :> [status |-> "pending", priority |-> 1,
                      completion_date |-> None, cost |-> None, property_id |-> 2,
                      requested_by_id |-> 2, assigned_to_id |-> None])
    /\ listed = NoListing
    /\ inflight = NoRows
    /\ running = NoneRunning
    /\ attempted = NoBatch
    /\ today \in StartDates
    /\ last = Call("init", Returned)

NextAccess ==
    \/ \E u \in Callers, property_id \in PropertyFilters, tenant_id \in IdFilters,
          status \in ContractStatusFilters :
            read_contracts(u, property_id, tenant_id, status)
    \/ \E u \in Callers, contract_id \in IdFilters,
          status \in PaymentStatusFilters, type \in PaymentTypeFilters :
            read_payments(u, contract_id, status, type)
    \/ \E u \in Callers, property_id \in IdFilters,
          status \in MaintenanceStatusFilters, priority \in PriorityFilters :
            read_maintenance_requests(u, property_id, status, priority)
    \/ \E u \in Callers, id \in AccessIds : read_property(u, id)
    \/ \E u \in Callers, id \in AccessIds : read_contract(u, id)
    \/ \E u \in Callers, id \in AccessIds : read_payment(u, id)
    \/ \E u \in Callers, id \in AccessIds : read_maintenance_request(u, id)
    \/ \E id \in AccessIds : terminate_contract(id)

SpecAccess == InitAccess /\ [][NextAccess]_vars

(***************************************************************************)
(* generate_rent_payments, run over a store whose contract 1 carries any   *)
(* of the end dates and payment days below; contract 2 has no rent terms.  *)
(***************************************************************************)
\* No end date, an end date in the month after the start (before and after
\* the start's day of month), the end of the year, and the next January.
RentEndDates ==
    {None, Some(<<2024, 2, 10>>), Some(<<2024, 2, 20>>),
     Some(<<2024, 12, 31>>), Some(<<2025, 1, 20>>)}

\* A day every month has, and one that seven months of the year have.
PaymentDays == {5, 31}

InitRent ==
    /\ properties = (1 :> [status |-> "rented", owner_id |-> 2])
                        @@ (2 :> [status |-> "rented", owner_id |-> 2])
    /\ \E end_date \in RentEndDates, payment_day \in PaymentDays :
         contracts =
            (1 :> [status |-> "active", property_id |-> 1, tenant_id |-> 1,
                   end_date |-> end_date,
                   rent_amount |-> Some(1000), payment_day |-> Some(payment_day)])
            @@ (2 :> [status |-> "pending", property_id |-> 2, tenant_id |-> 1,
                      end_date |-> None,
                      rent_amount |-> None, payment_day |-> None])
    /\ payments = NoRows
    /\ maintenance = NoRows
    /\ listed = NoListing
    /\ inflight = NoRows
    /\ running = NoneRunning
    /\ attempted = NoBatch
    /\ today \in RentStartDates
    /\ last = Call("init", Returned)

NextRent ==
    \/ \E id \in PaymentContractInputs : generate_rent_payments(id)
    \/ \E id \in PaymentIds : mark_payment_as_paid(id)
    \/ \E id \in PaymentContractInputs : terminate_contract(id)
    \/ Tick

SpecRent == InitRent /\ [][NextRent]_vars

(***************************************************************************)
(* check_contract_expiration, run on every day of a leap year over a store *)
(* with an active contract and an expired one.                             *)
(***************************************************************************)
\* Every date of 2024.
ExpiryDates ==
    {date \in {<<2024, m, d>> : m \in 1..12, d \in 1..31} :
        ValidDate(date[1], date[2], date[3])}

\* No end date, ends in this year and an end in the next January.
ExpiryEndDates ==
    {None, Some(<<2024, 3, 1>>), Some(<<2024, 8, 15>>), Some(<<2025, 1, 10>>)}

InitExpiry ==
    /\ properties = (1 :> [status |-> "rented", owner_id |-> 2])
                        @@ (2 :> [status |-> "available", owner_id |-> 2])
    /\ \E end_date \in ExpiryEndDates :
         contracts =
            (1 :> [status |-> "active", property_id |-> 1, tenant_id |-> 1,
                   end_date |-> end_date,
                   rent_amount |-> Some(1000), payment_day |-> Some(5)])
            @@ (2 :> [status |-> "expired", property_id |-> 2, tenant_id |-> 1,
                      end_date |-> Some(<<2024, 7, 15>>),
                      rent_amount |-> Some(1000), payment_day |-> Some(5)])
    /\ payments = NoRows
    /\ maintenance = NoRows
    /\ listed = NoListing
    /\ inflight = NoRows
    /\ running = NoneRunning
    /\ attempted = NoBatch
    /\ today \in ExpiryDates
    /\ last = Call("init", Returned)

NextExpiry ==
    \/ check_contract_expiration
    \/ \E id \in PaymentContractInputs,
          data \in ContractUpdateInputs : update_contract(id, data)
    \/ Tick

SpecExpiry == InitExpiry /\ [][NextExpiry]_vars

(***************************************************************************)
(* The write routes, run over a store that holds one property of owner 2   *)
(* and no contract.                                                        *)
(***************************************************************************)
\* The bodies of POST /maintenance: those of the service, and one that
\* leaves the requester to the route (requested_by_id = 0).
RouteCreateInputs ==
    MaintenanceCreateInputs \cup
    {[status |-> "pending", priority |-> 1, completion_date |-> None,
      cost |-> None, property_id |-> 1, requested_by_id |-> 0,
      assigned_to_id |-> None]}

InitRoutes ==
    /\ properties = (1 :> [status |-> "available", owner_id |-> 2])
    /\ contracts = NoRows
    /\ payments = NoRows
    /\ maintenance = NoRows
    /\ listed = NoListing
    /\ inflight = NoRows
    /\ running = NoneRunning
    /\ attempted = NoBatch
    /\ today \in StartDates
    /\ last = Call("init", Returned)

NextRoutes ==
    \/ \E u \in Callers, id \in AccessIds : delete_property_route(u, id)
    \/ \E u \in Callers,
          data \in RouteCreateInputs : create_maintenance_request_route(u, data)
    \/ \E u \in Callers, id \in AccessIds : read_property(u, id)

SpecRoutes == InitRoutes /\ [][NextRoutes]_vars

(***************************************************************************)
(* create_contract requests served at the same time, over a store whose    *)
(* properties are all available and have no contract.                      *)
(***************************************************************************)
InitSessions ==
    /\ properties = [p \in PropertyIds |-> [status |-> "available", owner_id |-> 2]]
    /\ contracts = NoRows
    /\ payments = NoRows
    /\ maintenance = NoRows
    /\ listed = NoListing
    /\ inflight = NoRows
    /\ running = NoneRunning
    /\ attempted = NoBatch
    /\ today \in StartDates
    /\ last = Call("init", Returned)

NextSessions ==
    \/ \E session \in Sessions,
          data \in ContractCreateInputs : create_contract_read(session, data)
    \/ \E session \in Sessions : create_contract_commit(session)

SpecSessions == InitSessions /\ [][NextSessions]_vars

(***************************************************************************)
(* The scheduler and the notification batches, over the store of the read  *)
(* routes: two active contracts that end within 30 days, a pending payment *)
(* of each due within 7 days.                                              *)
(***************************************************************************)
\* The calls of send_notification that can fail.
Recipients == {Recipient(row, to) : row \in {1, 2}, to \in {"tenant", "owner"}}

\* The deliveries that fail in one batch: none, or those to one recipient.
Failures == {{}} \cup {{recipient} : recipient \in Recipients}

\* The recipient lists handed to send_bulk_notification.
BulkRecipients ==
    {<<Recipient(1, "tenant")>>,
     <<Recipient(1, "tenant"), Recipient(2, "tenant")>>,
     <<Recipient(1, "tenant"), Recipient(1, "owner"), Recipient(2, "tenant")>>}

InitScheduler == InitAccess

NextScheduler ==
    \/ \E job \in Jobs : Trigger(job)
    \/ \E failing \in Failures : schedule_payment_reminders(failing)
    \/ \E failing \in Failures : check_contract_renewals(failing)
    \/ check_maintenance_requests
    \/ \E recipients \in BulkRecipients,
          failing \in Failures : send_bulk_notification(recipients, failing)
    \/ \E payment_id \in {1, 2} : mark_payment_as_paid(payment_id)

SpecScheduler == InitScheduler /\ [][NextScheduler]_vars

(***************************************************************************)
(* The claims.  A step of a service method is named by the method's action *)
(* itself: "create_contract(data) => P" says that P holds of every step    *)
(* that is a call of create_contract with the input data.  Every method    *)
(* records its name in last, so such a formula looks only at the steps     *)
(* whose last'.op is the method's.                                         *)
(***************************************************************************)
\* The active contracts of property p in the contract table cs.
ActiveContracts(cs, p) ==
    {c \in DOMAIN cs : cs[c].property_id = p /\ cs[c].status = "active"}

\* C1: in every reachable state, a property's status is rented if and only if
\* exactly one contract with status active references it.
C1_RentedIffOneActive ==
    \A p \in DOMAIN properties :
        (properties[p].status = "rented")
            <=> (Cardinality(ActiveContracts(contracts, p)) = 1)

\* C2: immediately after create_contract succeeds on p, whatever contract
\* status the caller supplied, p.status is rented and exactly one contract
\* with status active references p.
C2_CreateLeavesOneActive ==
    [][last'.op = "create_contract" =>
      \A data \in ContractCreateInputs :
        (create_contract(data) /\ last'.code = Returned)
            => /\ properties'[data.property_id].status = "rented"
               /\ Cardinality(ActiveContracts(contracts', data.property_id)) = 1]_vars

\* C3: create_contract on a property whose status is not available fails with
\* a Conflict (409) error, adds no contract row and changes no property status.
C3_NotAvailableConflict ==
    [][last'.op = "create_contract" =>
      \A data \in ContractCreateInputs :
        (/\ data.property_id \in DOMAIN properties
         /\ properties[data.property_id].status # "available"
         /\ create_contract(data))
            => /\ last'.code = HTTP_409_CONFLICT
               /\ contracts' = contracts
               /\ properties' = properties]_vars

\* C3, the part the code keeps: such a call raises and writes nothing.
C3_NotAvailableNoWrite ==
    [][last'.op = "create_contract" =>
      \A data \in ContractCreateInputs :
        (/\ data.property_id \in DOMAIN properties
         /\ properties[data.property_id].status # "available"
         /\ create_contract(data))
            => /\ last'.code # Returned
               /\ contracts' = contracts
               /\ properties' = properties]_vars

\* C4: create_contract is atomic in its two writes: a call that returns has
\* added exactly one contract row and set the status of that row's property
\* to rented, leaving every other row as it was; a call that fails (missing
\* property, missing tenant, property not available) leaves the contract
\* table and every property unchanged.
C4_CreateAtomic ==
    [][last'.op = "create_contract" =>
        IF last'.code = Returned
        THEN /\ Cardinality(DOMAIN contracts' \ DOMAIN contracts) = 1
             /\ \A c \in DOMAIN contracts : contracts'[c] = contracts[c]
             /\ DOMAIN properties' = DOMAIN properties
             /\ \A c \in DOMAIN contracts' \ DOMAIN contracts :
                    /\ contracts'[c].property_id \in DOMAIN properties
                    /\ properties'[contracts'[c].property_id].status = "rented"
                    /\ properties[contracts'[c].property_id].status # "rented"
                    /\ \A q \in DOMAIN properties \ {contracts'[c].property_id} :
                           properties'[q] = properties[q]
        ELSE /\ contracts' = contracts
             /\ properties' = properties]_vars

\* C4 witness: a create_contract call has returned, its row is in the table
\* and its property is rented.
C4_Witness ==
    /\ last = Call("create_contract", Returned)
    /\ \E c \in DOMAIN contracts :
          properties[contracts[c].property_id].status = "rented"

\* C5: terminate_contract on an existing contract that is not terminated sets,
\* in one step, the contract's status to terminated, its end_date to the
\* current date and the status of its property to available.
C5_TerminateReleases ==
    [][last'.op = "terminate_contract" =>
      \A c \in ContractIds :
        (/\ c \in DOMAIN contracts
         /\ contracts[c].status # "terminated"
         /\ terminate_contract(c))
            => /\ last'.code = Returned
               /\ contracts'[c].status = "terminated"
               /\ contracts'[c].end_date = Some(today)
               /\ properties'[contracts[c].property_id].status = "available"]_vars

\* C5 witness: a contract created on an earlier day has been terminated today.
C5_Witness ==
    /\ last = Call("terminate_contract", Returned)
    /\ today \notin StartDates
    /\ \E c \in DOMAIN contracts :
          /\ contracts[c].status = "terminated"
          /\ contracts[c].end_date = Some(today)
          /\ properties[contracts[c].property_id].status = "available"

\* C6: a second terminate_contract on a contract, after a successful one and
\* possibly on a later date, fails with a Conflict (409) error and leaves the
\* contract's end_date and status and the property's status unchanged.
C6_SecondTerminateConflict ==
    [][last'.op = "terminate_contract" =>
      \A c \in ContractIds :
        (/\ c \in DOMAIN contracts
         /\ contracts[c].status = "terminated"
         /\ terminate_contract(c))
            => /\ last'.code = HTTP_409_CONFLICT
               /\ contracts' = contracts
               /\ properties' = properties]_vars

\* C6, the part the code keeps: the second call raises and writes nothing.
C6_SecondTerminateNoWrite ==
    [][last'.op = "terminate_contract" =>
      \A c \in ContractIds :
        (/\ c \in DOMAIN contracts
         /\ contracts[c].status = "terminated"
         /\ terminate_contract(c))
            => /\ last'.code # Returned
               /\ contracts' = contracts
               /\ properties' = properties]_vars

\* C7: after update_contract sets a contract's status to terminated, the
\* status of the contract's property is available.
C7_UpdateTerminatedReleases ==
    [][last'.op = "update_contract" =>
      \A c \in ContractIds : \A data \in ContractUpdateInputs :
        (/\ c \in DOMAIN contracts
         /\ "status" \in DOMAIN data
         /\ data.status = "terminated"
         /\ update_contract(c, data))
            => properties'[contracts[c].property_id].status = "available"]_vars

\* C8: a second mark_payment_as_paid on a payment that is already paid fails
\* with a Conflict (409) error and leaves paid_date and status unchanged.
C8_SecondMarkPaidConflict ==
    [][last'.op = "mark_payment_as_paid" =>
      \A p \in PaymentIds :
        (/\ p \in DOMAIN payments
         /\ payments[p].status = "paid"
         /\ mark_payment_as_paid(p))
            => /\ last'.code = HTTP_409_CONFLICT
               /\ payments' = payments]_vars

\* C8, the part the code keeps: the second call raises and writes nothing.
C8_SecondMarkPaidNoWrite ==
    [][last'.op = "mark_payment_as_paid" =>
      \A p \in PaymentIds :
        (/\ p \in DOMAIN payments
         /\ payments[p].status = "paid"
         /\ mark_payment_as_paid(p))
            => /\ last'.code # Returned
               /\ payments' = payments]_vars

\* C9: in every reachable state, every payment has paid_date set if and only
\* if its status is paid.
C9_PaidDateIffPaid ==
    \A p \in DOMAIN payments :
        (payments[p].paid_date # None) <=> (payments[p].status = "paid")

\* C10: once a payment's status is paid, no operation changes it to pending,
\* overdue or cancelled.
C10_PaidIsOneWay ==
    [][\A p \in DOMAIN payments :
        payments[p].status = "paid" => payments'[p].status = "paid"]_vars

\* C11: in every state reachable by create_maintenance_request,
\* update_maintenance_request and complete_maintenance_request, a maintenance
\* request has completion_date and cost set if and only if its status is
\* completed.
C11_CompletionIffCompleted ==
    \A r \in DOMAIN maintenance :
        (maintenance[r].completion_date # None /\ maintenance[r].cost # None)
            <=> (maintenance[r].status = "completed")

\* C12: complete_maintenance_request on a request that is already completed
\* fails with a Conflict (409) error and leaves status, completion_date and
\* cost unchanged; on any other existing request it sets status to completed,
\* completion_date to the current date and cost to the supplied cost.
C12_CompleteOnceElseConflict ==
    [][last'.op = "complete_maintenance_request" =>
      \A r \in RequestIds : \A cost \in CostInputs :
        (r \in DOMAIN maintenance /\ complete_maintenance_request(r, cost))
            => IF maintenance[r].status = "completed"
               THEN /\ last'.code = HTTP_409_CONFLICT
                    /\ maintenance' = maintenance
               ELSE /\ last'.code = Returned
                    /\ maintenance'[r].status = "completed"
                    /\ maintenance'[r].completion_date = Some(today)
                    /\ maintenance'[r].cost = Some(cost)]_vars

\* C12, the part the code keeps: the call on a completed request raises and
\* writes nothing, and on any other request it makes the three writes.
C12_CompleteOnceElseRaise ==
    [][last'.op = "complete_maintenance_request" =>
      \A r \in RequestIds : \A cost \in CostInputs :
        (r \in DOMAIN maintenance /\ complete_maintenance_request(r, cost))
            => IF maintenance[r].status = "completed"
               THEN /\ last'.code # Returned
                    /\ maintenance' = maintenance
               ELSE /\ last'.code = Returned
                    /\ maintenance'[r].status = "completed"
                    /\ maintenance'[r].completion_date = Some(today)
                    /\ maintenance'[r].cost = Some(cost)]_vars

\* C13: when a user with role tenant lists contracts, every returned contract
\* has tenant_id equal to the caller's id, for every value of the tenant_id,
\* property_id and status filters the caller supplies, including a tenant_id
\* of another user.
C13_TenantListsOwnContracts ==
    (last.op = "read_contracts" /\ listed.current_user.role = "tenant")
        => \A c \in listed.rows :
              contracts[c].tenant_id = listed.current_user.id

\* C13 witness: a tenant asked for the contracts of another user, and the
\* response holds the caller's own contract while the other user has one too.
C13_Witness ==
    /\ last = Call("read_contracts", Returned)
    /\ listed.current_user.role = "tenant"
    /\ listed.asked # None
    /\ listed.asked # Some(listed.current_user.id)
    /\ listed.rows # {}
    /\ \E c \in DOMAIN contracts : Some(contracts[c].tenant_id) = listed.asked

\* C14: when a user with role tenant lists payments, every returned payment
\* belongs to a contract on a property the caller holds an active contract
\* on, for every value of the contract_id filter (absent, one of the caller's
\* contracts, or another tenant's contract).
C14_TenantListsOwnPayments ==
    (last.op = "read_payments" /\ listed.current_user.role = "tenant")
        => \A p \in listed.rows :
              has_active_contract(contracts[payments[p].contract_id].property_id,
                                  listed.current_user.id)

\* C15: when a user with role tenant lists maintenance requests, every
\* returned request is on a property the caller holds an active contract on,
\* for every value of the property_id filter (absent, a property of the
\* caller, or a property of someone else).
C15_TenantListsOwnRequests ==
    (last.op = "read_maintenance_requests" /\ listed.current_user.role = "tenant")
        => \A r \in listed.rows :
              has_active_contract(maintenance[r].property_id,
                                  listed.current_user.id)

\* The ids of the table a single-resource read looks in.
ReadTable(op) ==
    IF op = "read_property" THEN DOMAIN properties
    ELSE IF op = "read_contract" THEN DOMAIN contracts
    ELSE IF op = "read_payment" THEN DOMAIN payments
    ELSE DOMAIN maintenance

\* C16: for every single-resource read (property, contract, payment,
\* maintenance request) and every caller role, if the resource id does not
\* exist the result is NotFound, and Forbidden is returned only for a
\* resource that exists: the existence check precedes the ownership check.
C16_NotFoundBeforeForbidden ==
    last.op \in {"read_property", "read_contract", "read_payment",
                 "read_maintenance_request"}
        => /\ Value(listed.asked) \notin ReadTable(last.op)
                => last.code = HTTP_404_NOT_FOUND
           /\ last.code = HTTP_403_FORBIDDEN
                => Value(listed.asked) \in ReadTable(last.op)

\* C16 witness: a tenant, who owns nothing under the missing id, has read a
\* contract id that no row has and was answered NotFound.
C16_Witness ==
    /\ last = Call("read_contract", HTTP_404_NOT_FOUND)
    /\ listed.current_user.role = "tenant"
    /\ Value(listed.asked) \notin DOMAIN contracts

\* C17: delete_property on a property that has at least one contract row of
\* any status (including a single terminated one) fails with a Conflict (409)
\* error and leaves the property and all its contracts in place.
C17_DeleteWithContractsConflict ==
    [][last'.op = "delete_property" =>
      \A p \in PropertyIds :
        (/\ p \in DOMAIN properties
         /\ ContractsOf(p) # {}
         /\ delete_property(p))
            => /\ last'.code = HTTP_409_CONFLICT
               /\ properties' = properties
               /\ contracts' = contracts]_vars

\* C17, the part the code keeps: such a delete raises and writes nothing.
C17_DeleteWithContractsNoWrite ==
    [][last'.op = "delete_property" =>
      \A p \in PropertyIds :
        (/\ p \in DOMAIN properties
         /\ ContractsOf(p) # {}
         /\ delete_property(p))
            => /\ last'.code # Returned
               /\ properties' = properties
               /\ contracts' = contracts]_vars

\* The months of the calendar, counted from year 0.
MonthIndex(d) == d[1] * 12 + d[2] - 1

\* The last date a schedule generated today for contract c has to cover.
ScheduleEnd(c) ==
    IF contracts[c].end_date = None
    THEN <<today[1] + 1, today[2], today[3]>>
    ELSE Value(contracts[c].end_date)

\* The due dates of one payment per calendar month, from today's month
\* through the month of the schedule's end, each on the contract's payment_day.
MonthlyDueDates(c) ==
    {<<k \div 12, (k % 12) + 1, Value(contracts[c].payment_day)>> :
        k \in MonthIndex(today)..MonthIndex(ScheduleEnd(c))}

\* The rows a step has added to the payment table.
NewPayments == DOMAIN payments' \ DOMAIN payments

\* A contract that generate_rent_payments accepts.
HasRentTerms(c) ==
    /\ c \in DOMAIN contracts
    /\ ~Falsy(contracts[c].rent_amount)
    /\ ~Falsy(contracts[c].payment_day)

\* C18: for a contract with rent_amount and payment_day set,
\* generate_rent_payments run today creates exactly one payment for each
\* calendar month from today's month through the month of the contract's
\* end_date (or one year after today when end_date is null), and each created
\* payment has status pending, type rent, amount equal to rent_amount and
\* due_date on day payment_day of its own month.
C18_OnePaymentPerMonth ==
    [][last'.op = "generate_rent_payments" =>
      \A c \in PaymentContractInputs :
        (HasRentTerms(c) /\ generate_rent_payments(c))
            => /\ Cardinality(NewPayments) = Cardinality(MonthlyDueDates(c))
               /\ {payments'[p].due_date : p \in NewPayments} = MonthlyDueDates(c)
               /\ \A p \in NewPayments :
                    /\ payments'[p].status = "pending"
                    /\ payments'[p].type = "rent"
                    /\ payments'[p].amount = Value(contracts[c].rent_amount)
                    /\ payments'[p].contract_id = c]_vars

\* C19: generate_rent_payments completes without raising for every contract
\* with payment_day in 1..31, every end_date and every current date, and
\* produces a payment for every month, including months that have no day 31
\* and schedules that cross from December into the next year.
C19_GenerateNeverRaises ==
    [][last'.op = "generate_rent_payments" =>
      \A c \in PaymentContractInputs :
        (HasRentTerms(c) /\ generate_rent_payments(c))
            => /\ last'.code = Returned
               /\ \A k \in MonthIndex(today)..MonthIndex(ScheduleEnd(c)) :
                    \E p \in NewPayments :
                        MonthIndex(payments'[p].due_date) = k]_vars

\* C20: generate_rent_payments is all-or-nothing: a call that returns has
\* inserted every payment of the schedule it computed, and a call that fails
\* (contract missing, rent_amount or payment_day unset, or a date error
\* part-way through the schedule) leaves the payment table unchanged.
C20_GenerateAllOrNothing ==
    [][last'.op = "generate_rent_payments" =>
        /\ \A p \in DOMAIN payments :
              p \in DOMAIN payments' /\ payments'[p] = payments[p]
        /\ last'.code # Returned => payments' = payments
        /\ last'.code = Returned =>
              \E c \in DOMAIN contracts :
                LET schedule == RentSchedule(today, ScheduleEnd(c),
                                    Value(contracts[c].payment_day), <<>>)
                IN /\ HasRentTerms(c)
                   /\ ~schedule.raised
                   /\ Cardinality(NewPayments) = Len(schedule.due)
                   /\ \A i \in 1..Len(schedule.due) :
                        \E p \in NewPayments :
                            /\ payments'[p].due_date = schedule.due[i]
                            /\ payments'[p].contract_id = c]_vars

\* C20 witness: a call has failed on a date error after its loop had already
\* built at least one payment, and the payment table holds no row.
C20_Witness ==
    /\ last = Call("generate_rent_payments", HTTP_500_INTERNAL_SERVER_ERROR)
    /\ payments = NoRows
    /\ HasRentTerms(1)
    /\ LET schedule == RentSchedule(today, ScheduleEnd(1),
                                    Value(contracts[1].payment_day), <<>>)
       IN schedule.raised /\ Len(schedule.due) >= 1

\* C22: create_payment fails with NotFound when the referenced contract does
\* not exist and with Conflict (409) when the contract exists but its status
\* is not active; in both cases no payment is added.
C22_CreatePaymentNotFoundOrConflict ==
    [][last'.op = "create_payment" =>
      \A data \in PaymentCreateInputs :
        create_payment(data)
            => /\ data.contract_id \notin DOMAIN contracts
                    => /\ last'.code = HTTP_404_NOT_FOUND
                       /\ payments' = payments
               /\ (/\ data.contract_id \in DOMAIN contracts
                   /\ contracts[data.contract_id].status # "active")
                    => /\ last'.code = HTTP_409_CONFLICT
                       /\ payments' = payments]_vars

\* C22, the part the code keeps: NotFound for a missing contract, an error
\* for a contract that is not active, and no payment added in either case.
C22_CreatePaymentNotFoundOrRaise ==
    [][last'.op = "create_payment" =>
      \A data \in PaymentCreateInputs :
        create_payment(data)
            => /\ data.contract_id \notin DOMAIN contracts
                    => /\ last'.code = HTTP_404_NOT_FOUND
                       /\ payments' = payments
               /\ (/\ data.contract_id \in DOMAIN contracts
                   /\ contracts[data.contract_id].status # "active")
                    => /\ last'.code \notin {Returned, HTTP_404_NOT_FOUND}
                       /\ payments' = payments]_vars

\* C29: every payment created by any operation (create_payment or
\* generate_rent_payments) belongs to a contract whose status was active at
\* the moment the payment was created.
C29_PaymentsOnlyForActive ==
    [][\A p \in NewPayments :
        /\ payments'[p].contract_id \in DOMAIN contracts
        /\ contracts[payments'[p].contract_id].status = "active"]_vars

\* C30: contract status terminated is terminal: once a contract's status is
\* terminated, no update_contract or terminate_contract call changes it to
\* pending, active or expired.
C30_TerminatedIsTerminal ==
    [][\A c \in DOMAIN contracts :
        contracts[c].status = "terminated"
            => contracts'[c].status = "terminated"]_vars

\* C21: for every current date today (every month 1..12 and every day of
\* month), check_contract_expiration returns without error exactly the
\* contracts with status active whose end_date d satisfies
\* today <= d <= today + 30 days.
C21_ExpiringWithinThirtyDays ==
    last.op = "check_contract_expiration"
        => /\ last.code = Returned
           /\ listed.rows =
                {c \in DOMAIN contracts :
                    /\ contracts[c].status = "active"
                    /\ contracts[c].end_date # None
                    /\ DateLE(today, Value(contracts[c].end_date))
                    /\ DateLE(Value(contracts[c].end_date), PlusDays(today, 30))}

C25_WitnessListed ==
    /\ last = Call("get_high_priority_requests", Returned)
    /\ \E r \in listed.rows : maintenance[r].priority = 5

\* C26: deleting an existing property that has no contracts, requested by an
\* admin, reports success (not NotFound or another error) and removes the
\* property, so that a subsequent read of that property id yields NotFound
\* (get_property answers NotFound exactly for an id that has no row).
C26_AdminDeleteSucceeds ==
    [][last'.op = "delete_property_route" =>
      \A u \in Callers : \A id \in AccessIds :
        (/\ u.role = "admin"
         /\ id \in DOMAIN properties
         /\ ~HasContracts(id)
         /\ delete_property_route(u, id))
            => /\ last'.code = Returned
               /\ id \notin DOMAIN properties']_vars

\* C27's users without access to property p: a tenant with no active
\* contract on it, an owner who does not own it.
NoAccess(u, p) ==
    \/ u.role = "tenant" /\ ~has_active_contract(p, u.id)
    \/ u.role = "owner" /\ properties[p].owner_id # u.id

\* C27: a maintenance request can be created only by a user who has access to
\* the target property: a create request by a tenant with no active contract
\* on the property, or by an owner who does not own it, is rejected and adds
\* no maintenance request.
C27_CreateNeedsAccess ==
    [][last'.op = "create_maintenance_request" =>
      \A u \in Callers : \A data \in RouteCreateInputs :
        (/\ data.property_id \in DOMAIN properties
         /\ NoAccess(u, data.property_id)
         /\ create_maintenance_request_route(u, data))
            => /\ last'.code # Returned
               /\ maintenance' = maintenance]_vars

\* C28: two create_contract requests that both read a property while it is
\* available do not both succeed: no property comes to have two contracts
\* created from the one available state (no session ever makes a property
\* available again, so every contract of a property dates from that state).
C28_OneContractPerAvailableState ==
    \A p \in DOMAIN properties : Cardinality(ContractsOf(p)) <= 1

\* C23: no two executions of the same scheduled job run at the same time.
C23_NoOverlappingRuns ==
    \A job \in Jobs : running[job] <= 1

\* The recipients of a batch that were not tried although a recipient
\* before them was: those a failure cut off.
NotTried(batch) ==
    {batch.recipients[i] : i \in Len(batch.tried) + 1..Len(batch.recipients)}

\* C24: in every batch of notifications (send_bulk_notification and the
\* loops of the three scheduled jobs) a delivery is attempted for every
\* recipient of the batch, whichever deliveries fail.
C24_EveryRecipientTried ==
    last.op \in {"send_bulk_notification", "schedule_payment_reminders",
                 "check_contract_renewals", "check_maintenance_requests"}
        => NotTried(attempted) = {}

====
